---- MODULE Spec2Model ----
(***************************************************************************)
(* Model of backend/simple_rule_engine.py (class SimpleRuleEngine): the    *)
(* temporal overlap check, the guarded rule lookups and the three analysis *)
(* procedures.  Python values are modelled as follows:                     *)
(*   - None (where a str is expected) is the token None;                   *)
(*   - an object returned by the measurement store is a tagged record      *)
(*     (NoneObj, StrObj(s), DictObj(v, s, e));                             *)
(*   - a dict is a TLA+ record, `k in d` is k \in DOMAIN d;                *)
(*   - an f-string / str.join result is the sequence of its pieces;        *)
(*   - a call either returns a value or raises an exception.               *)
(***************************************************************************)
EXTENDS Integers, Sequences, FiniteSets, TLC

VARIABLES pc, call, result, trace

vars == <<pc, call, result, trace>>

----------------------------------------------------------------------------
(* Bounds of the model *)

\* timestamps that parse are the decimal numerals of 1..MaxTime
MaxTime == 3
\* timestamps of the records the measurement store holds are in 1..MaxStoreTime
MaxStoreTime == 2
\* longest record list handed directly to check_temporal_overlap
MaxLen == 3

----------------------------------------------------------------------------
(* Python values *)

None == "<None>"

\* truth value of a str-or-None (`not x`, all([...]))
Truthy(v) == v # None /\ v # ""

NoneObj == [type |-> "NoneType"]
StrObj(s) == [type |-> "str", str |-> s]
DictObj(v, s, e) == [type |-> "dict", value |-> v, start_time |-> s, end_time |-> e]

\* truth value of an object returned by get_latest_abstracted_value
ObjTruthy(o) ==
    CASE o.type = "NoneType" -> FALSE
      [] o.type = "str" -> o.str # ""
      [] o.type = "dict" -> TRUE

\* o['key'] with a str key raises TypeError unless o is a mapping
Subscriptable(o) == o.type = "dict"

Returned(v, t) == [outcome |-> "returned", value |-> v, trace |-> t]
Raised(e, t) == [outcome |-> "raised", exception |-> e, trace |-> t]

RECURSIVE Join(_, _)
\* sep.join(items), as the sequence of its pieces
Join(sep, items) ==
    IF items = <<>> THEN <<>>
    ELSE IF Len(items) = 1 THEN <<items[1]>>
    ELSE <<items[1], sep>> \o Join(sep, Tail(items))

----------------------------------------------------------------------------
(* Timestamps: pd.to_datetime *)

ParseableTimestamps == {ToString(i) : i \in 1..MaxTime}

\* pd.to_datetime(s): the instant a numeral denotes; anything else raises
to_datetime(s) ==
    IF \E i \in 1..MaxTime : ToString(i) = s
    THEN [ok |-> TRUE, dt |-> CHOOSE i \in 1..MaxTime : ToString(i) = s]
    ELSE [ok |-> FALSE, dt |-> 0]

RECURSIVE PyMax(_)
PyMax(xs) ==
    IF Len(xs) = 1 THEN xs[1]
    ELSE LET m == PyMax(SubSeq(xs, 1, Len(xs) - 1))
         IN  IF xs[Len(xs)] > m THEN xs[Len(xs)] ELSE m

RECURSIVE PyMin(_)
PyMin(xs) ==
    IF Len(xs) = 1 THEN xs[1]
    ELSE LET m == PyMin(SubSeq(xs, 1, Len(xs) - 1))
         IN  IF xs[Len(xs)] < m THEN xs[Len(xs)] ELSE m

RECURSIVE ConvertRecords(_)
\* the loop of check_temporal_overlap: None or an exception ends it with False
ConvertRecords(records) ==
    IF records = <<>> THEN [ok |-> TRUE, datetime_records |-> <<>>]
    ELSE LET record == records[1]
         IN  IF record.type = "NoneType" THEN [ok |-> FALSE, datetime_records |-> <<>>]
             ELSE IF ~Subscriptable(record) THEN [ok |-> FALSE, datetime_records |-> <<>>]
             ELSE LET start_dt == to_datetime(record.start_time)
                      end_dt == to_datetime(record.end_time)
                  IN  IF ~start_dt.ok \/ ~end_dt.ok
                      THEN [ok |-> FALSE, datetime_records |-> <<>>]
                      ELSE LET rest == ConvertRecords(Tail(records))
                           IN  IF ~rest.ok THEN rest
                               ELSE [ok |-> TRUE,
                                     datetime_records |->
                                        <<[start |-> start_dt.dt, end |-> end_dt.dt]>>
                                        \o rest.datetime_records]

\* variant: `<` for `<=` in the final comparison
LatestStartStrictlyBeforeEarliestEnd(datetime_records) ==
    LET latest_start == PyMax([i \in 1..Len(datetime_records) |-> datetime_records[i].start])
        earliest_end == PyMin([i \in 1..Len(datetime_records) |-> datetime_records[i].end])
    IN  latest_start < earliest_end

LatestStartBeforeEarliestEnd(datetime_records) ==
    LET latest_start == PyMax([i \in 1..Len(datetime_records) |-> datetime_records[i].start])
        earliest_end == PyMin([i \in 1..Len(datetime_records) |-> datetime_records[i].end])
    IN  latest_start <= earliest_end

\* variant: the loop skips a None record (`continue`) instead of returning False
check_temporal_overlap_SkipsNull(records) ==
    IF records = <<>> \/ Len(records) < 2 THEN TRUE
    ELSE LET conv == ConvertRecords(SelectSeq(records, LAMBDA r : r.type # "NoneType"))
         IN  IF ~conv.ok THEN FALSE
             ELSE IF conv.datetime_records = <<>> THEN TRUE
             ELSE LatestStartBeforeEarliestEnd(conv.datetime_records)

check_temporal_overlap(records) ==
    IF records = <<>> \/ Len(records) < 2 THEN TRUE
    ELSE LET conv == ConvertRecords(records)
         IN  IF ~conv.ok THEN FALSE
             ELSE LatestStartBeforeEarliestEnd(conv.datetime_records)

----------------------------------------------------------------------------
(* Rule tables and the rule processor (backend_config, RuleProcessor) *)

HEMATOLOGICAL_RULES ==
    [fields |-> <<"hemoglobin_state", "wbc_level">>,
     rows |-> <<
        [inputs |-> [hemoglobin_state |-> "Low", wbc_level |-> "Low-Low"],
         output |-> "Pancytopenia"],
        [inputs |-> [hemoglobin_state |-> "Normal", wbc_level |-> "Normal"],
         output |-> "Normal"],
        [inputs |-> [hemoglobin_state |-> "Low", wbc_level |-> "Normal"],
         output |-> "Anemia"] >>]

SYSTEMIC_TOXICITY_RULES ==
    [fields |-> <<"fever_level", "chills", "skin_look", "allergic_state">>,
     rows |-> <<
        [inputs |-> [fever_level |-> "Normal-Elevated", chills |-> "None",
                     skin_look |-> "Erythema", allergic_state |-> "Edema"],
         output |-> "GRADE I"],
        [inputs |-> [fever_level |-> "High", chills |-> "Shaking",
                     skin_look |-> "Vesiculation", allergic_state |-> "Bronchospasm"],
         output |-> "GRADE II"],
        [inputs |-> [fever_level |-> "High", chills |-> "None",
                     skin_look |-> "Erythema", allergic_state |-> "Bronchospasm"],
         output |-> "GRADE II"] >>]

TREATMENT_RULES ==
    [fields |-> <<"gender", "hemoglobin_state", "hematological_state",
                  "systemic_toxicity_grade">>,
     rows |-> <<
        [inputs |-> [gender |-> "Male", hemoglobin_state |-> "Low",
                     hematological_state |-> "Pancytopenia",
                     systemic_toxicity_grade |-> "GRADE I"],
         output |-> "Measure BP once a week"],
        [inputs |-> [gender |-> "Female", hemoglobin_state |-> "Normal",
                     hematological_state |-> "Normal",
                     systemic_toxicity_grade |-> "GRADE II"],
         output |-> "Measure BP every 3 days"],
        [inputs |-> [gender |-> "Female", hemoglobin_state |-> "Low",
                     hematological_state |-> "Anemia",
                     systemic_toxicity_grade |-> "GRADE II"],
         output |-> "Give Celectone 2g twice a day"] >>]

RowMatches(table, row, input_values) ==
    \A i \in 1..Len(table.fields) :
        /\ table.fields[i] \in DOMAIN input_values
        /\ input_values[table.fields[i]] = row.inputs[table.fields[i]]

\* exact-match lookup: output of the first fully matching row, else None
apply_rule(table, input_values) ==
    IF \E i \in 1..Len(table.rows) : RowMatches(table, table.rows[i], input_values)
    THEN table.rows[CHOOSE i \in 1..Len(table.rows) :
                       /\ RowMatches(table, table.rows[i], input_values)
                       /\ \A j \in 1..(i - 1) :
                             ~RowMatches(table, table.rows[j], input_values)].output
    ELSE None

----------------------------------------------------------------------------
(* Guarded lookups *)

\* variant: the two values are bound to each other's field
get_hematological_state_Swapped(hemoglobin_state, wbc_level) ==
    IF ~Truthy(hemoglobin_state) \/ ~Truthy(wbc_level)
    THEN [value |-> None, trace |-> <<"get_hematological_state">>]
    ELSE [value |-> apply_rule(HEMATOLOGICAL_RULES,
                               [hemoglobin_state |-> wbc_level,
                                wbc_level |-> hemoglobin_state]),
          trace |-> <<"get_hematological_state", "apply_rule:HEMATOLOGICAL_RULES">>]

get_hematological_state(hemoglobin_state, wbc_level) ==
    IF ~Truthy(hemoglobin_state) \/ ~Truthy(wbc_level)
    THEN [value |-> None, trace |-> <<"get_hematological_state">>]
    ELSE [value |-> apply_rule(HEMATOLOGICAL_RULES,
                               [hemoglobin_state |-> hemoglobin_state,
                                wbc_level |-> wbc_level]),
          trace |-> <<"get_hematological_state", "apply_rule:HEMATOLOGICAL_RULES">>]

get_systemic_toxicity_grade(fever_level, chills, skin_look, allergic_state) ==
    IF ~(Truthy(fever_level) /\ Truthy(chills) /\ Truthy(skin_look) /\ Truthy(allergic_state))
    THEN [value |-> None, trace |-> <<"get_systemic_toxicity_grade">>]
    ELSE [value |-> apply_rule(SYSTEMIC_TOXICITY_RULES,
                               [fever_level |-> fever_level, chills |-> chills,
                                skin_look |-> skin_look,
                                allergic_state |-> allergic_state]),
          trace |-> <<"get_systemic_toxicity_grade", "apply_rule:SYSTEMIC_TOXICITY_RULES">>]

----------------------------------------------------------------------------
(* The measurement store *)

\* db.fetch_records(query, (patient_id, concept_name)) answers a list of rows,
\* here of one column; get_latest_abstracted_value reads result[0][0]
get_latest_abstracted_value(fetch_result) ==
    IF fetch_result = <<>> THEN NoneObj
    ELSE fetch_result[1][1]

\* variant: the value of a present record is not read
ValueOf_AlwaysNone(record) == None

\* record['value'] if record else None
ValueOf(record) == IF ObjTruthy(record) THEN record.value ELSE None

----------------------------------------------------------------------------
(* The analysis procedures *)

\* `record['value'] if record else None` raises TypeError on a truthy non-mapping
ValueRaises(record) == ObjTruthy(record) /\ ~Subscriptable(record)

\* variant: the success result lacks the temporal_overlap marker
hematological_success_NoMarker(patient_id, hemoglobin_state, wbc_level, hematological_state) ==
    [patient_id |-> patient_id,
     individual_states |->
        [hemoglobin_state |-> hemoglobin_state,
         wbc_level |-> wbc_level],
     hematological_state |-> hematological_state]

\* the result of a completed hematological analysis
hematological_success(patient_id, hemoglobin_state, wbc_level, hematological_state) ==
    [patient_id |-> patient_id,
     individual_states |->
        [hemoglobin_state |-> hemoglobin_state,
         wbc_level |-> wbc_level],
     hematological_state |-> hematological_state,
     temporal_overlap |-> TRUE]

analyze_patient_hematological_state(patient_id, fetched) ==
    LET hemoglobin_record == get_latest_abstracted_value(fetched["Hemoglobin_Level"])
        wbc_record == get_latest_abstracted_value(fetched["WBC_Level"])
        t0 == <<"fetch_records:Hemoglobin_Level", "fetch_records:WBC_Level">>
        t1 == Append(t0, "check_temporal_overlap")
    IN  IF ~ObjTruthy(hemoglobin_record) \/ ~ObjTruthy(wbc_record)
        THEN IF ValueRaises(hemoglobin_record) \/ ValueRaises(wbc_record)
             THEN Raised("TypeError", t0)
             ELSE Returned(
                    [patient_id |-> patient_id,
                     individual_states |->
                        [hemoglobin_state |-> ValueOf(hemoglobin_record),
                         wbc_level |-> ValueOf(wbc_record)],
                     hematological_state |-> None,
                     error |-> <<"Missing required abstracted data for hematological analysis">>],
                    t0)
        ELSE IF ~check_temporal_overlap(<<hemoglobin_record, wbc_record>>)
        THEN IF ~Subscriptable(hemoglobin_record) \/ ~Subscriptable(wbc_record)
             THEN Raised("TypeError", t1)
             ELSE Returned(
                    [patient_id |-> patient_id,
                     individual_states |->
                        [hemoglobin_state |-> hemoglobin_record.value,
                         wbc_level |-> wbc_record.value],
                     hematological_state |-> None,
                     error |-> <<"No temporal overlap between hemoglobin and WBC measurements">>],
                    t1)
        ELSE IF ~Subscriptable(hemoglobin_record) \/ ~Subscriptable(wbc_record)
        THEN Raised("TypeError", t1)
        ELSE LET hemoglobin_state == hemoglobin_record.value
                 wbc_level == wbc_record.value
                 hematological_state == get_hematological_state(hemoglobin_state, wbc_level)
             IN  Returned(
                    hematological_success(patient_id, hemoglobin_state, wbc_level,
                                          hematological_state.value),
                    t1 \o hematological_state.trace)

concept_names == <<"Fever_Level", "Chills", "Skin-Look", "Allergic-State">>

\* the loop collecting the names of the falsy records, in declared order
missing_concepts(all_records) ==
    SelectSeq(concept_names,
              LAMBDA c : \E i \in 1..Len(concept_names) :
                            concept_names[i] = c /\ ~ObjTruthy(all_records[i]))

analyze_patient_systemic_toxicity(patient_id, fetched) ==
    LET fever_record == get_latest_abstracted_value(fetched["Fever_Level"])
        chills_record == get_latest_abstracted_value(fetched["Chills"])
        skin_record == get_latest_abstracted_value(fetched["Skin-Look"])
        allergic_record == get_latest_abstracted_value(fetched["Allergic-State"])
        all_records == <<fever_record, chills_record, skin_record, allergic_record>>
        t0 == <<"fetch_records:Fever_Level", "fetch_records:Chills",
                "fetch_records:Skin-Look", "fetch_records:Allergic-State">>
        t1 == Append(t0, "check_temporal_overlap")
        missing == missing_concepts(all_records)
    IN  IF missing # <<>>
        THEN IF \E i \in 1..4 : ValueRaises(all_records[i])
             THEN Raised("TypeError", t0)
             ELSE Returned(
                    [patient_id |-> patient_id,
                     individual_states |->
                        [fever_level |-> ValueOf(fever_record),
                         chills |-> ValueOf(chills_record),
                         skin_look |-> ValueOf(skin_record),
                         allergic_state |-> ValueOf(allergic_record)],
                     systemic_toxicity_grade |-> None,
                     error |-> <<"Missing required abstracted data for: ">>
                               \o Join(", ", missing)],
                    t0)
        ELSE IF ~check_temporal_overlap(all_records)
        THEN IF \E i \in 1..4 : ~Subscriptable(all_records[i])
             THEN Raised("TypeError", t1)
             ELSE Returned(
                    [patient_id |-> patient_id,
                     individual_states |->
                        [fever_level |-> fever_record.value,
                         chills |-> chills_record.value,
                         skin_look |-> skin_record.value,
                         allergic_state |-> allergic_record.value],
                     systemic_toxicity_grade |-> None,
                     error |-> <<"No temporal overlap between all required measurements">>],
                    t1)
        ELSE IF \E i \in 1..4 : ~Subscriptable(all_records[i])
        THEN Raised("TypeError", t1)
        ELSE LET fever_level == fever_record.value
                 chills == chills_record.value
                 skin_look == skin_record.value
                 allergic_state == allergic_record.value
                 systemic_toxicity_grade ==
                    get_systemic_toxicity_grade(fever_level, chills, skin_look, allergic_state)
             IN  Returned(
                    [patient_id |-> patient_id,
                     individual_states |->
                        [fever_level |-> fever_level,
                         chills |-> chills,
                         skin_look |-> skin_look,
                         allergic_state |-> allergic_state],
                     systemic_toxicity_grade |-> systemic_toxicity_grade.value,
                     temporal_overlap |-> TRUE],
                    t1 \o systemic_toxicity_grade.trace)

\* variant: hemoglobin_state is tested before gender
missing_parameters_Reordered(gender, hemoglobin_state, hematological_state, systemic_toxicity_grade) ==
    (IF ~Truthy(hemoglobin_state) THEN <<"hemoglobin_state">> ELSE <<>>)
    \o (IF ~Truthy(gender) THEN <<"gender">> ELSE <<>>)
    \o (IF ~Truthy(hematological_state) THEN <<"hematological_state">> ELSE <<>>)
    \o (IF ~Truthy(systemic_toxicity_grade) THEN <<"systemic_toxicity_grade">> ELSE <<>>)

\* the names appended to `missing`, in the order of the four tests
missing_parameters(gender, hemoglobin_state, hematological_state, systemic_toxicity_grade) ==
    (IF ~Truthy(gender) THEN <<"gender">> ELSE <<>>)
    \o (IF ~Truthy(hemoglobin_state) THEN <<"hemoglobin_state">> ELSE <<>>)
    \o (IF ~Truthy(hematological_state) THEN <<"hematological_state">> ELSE <<>>)
    \o (IF ~Truthy(systemic_toxicity_grade) THEN <<"systemic_toxicity_grade">> ELSE <<>>)

\* variant: the systemic toxicity analysis is tested first
upstream_error_SystemicFirst(hematological_analysis, systemic_toxicity_analysis) ==
    IF "error" \in DOMAIN systemic_toxicity_analysis
    THEN <<"Systemic toxicity analysis failed: ">> \o systemic_toxicity_analysis.error
    ELSE IF "error" \in DOMAIN hematological_analysis
    THEN <<"Hematological analysis failed: ">> \o hematological_analysis.error
    ELSE <<>>

\* the two tests for errors in the input analyses: the message of the first
\* that applies, <<>> when neither does
upstream_error(hematological_analysis, systemic_toxicity_analysis) ==
    IF "error" \in DOMAIN hematological_analysis
    THEN <<"Hematological analysis failed: ">> \o hematological_analysis.error
    ELSE IF "error" \in DOMAIN systemic_toxicity_analysis
    THEN <<"Systemic toxicity analysis failed: ">> \o systemic_toxicity_analysis.error
    ELSE <<>>

analyze_treatment(patient_id, gender, hematological_analysis, systemic_toxicity_analysis) ==
    IF upstream_error(hematological_analysis, systemic_toxicity_analysis) # <<>>
    THEN Returned(
            [patient_id |-> patient_id,
             treatment_recommendations |-> None,
             error |-> upstream_error(hematological_analysis, systemic_toxicity_analysis)],
            <<>>)
    ELSE LET hemoglobin_state == hematological_analysis.individual_states.hemoglobin_state
             hematological_state == hematological_analysis.hematological_state
             systemic_toxicity_grade == systemic_toxicity_analysis.systemic_toxicity_grade
         IN  IF ~(Truthy(gender) /\ Truthy(hemoglobin_state) /\ Truthy(hematological_state)
                  /\ Truthy(systemic_toxicity_grade))
             THEN Returned(
                    [patient_id |-> patient_id,
                     treatment_recommendations |-> None,
                     error |-> <<"Missing required parameters for treatment analysis: ">>
                               \o Join(", ", missing_parameters(gender, hemoglobin_state,
                                                 hematological_state, systemic_toxicity_grade))],
                    <<>>)
             ELSE Returned(
                    [patient_id |-> patient_id,
                     clinical_inputs |->
                        [gender |-> gender,
                         hemoglobin_state |-> hemoglobin_state,
                         hematological_state |-> hematological_state,
                         systemic_toxicity_grade |-> systemic_toxicity_grade],
                     treatment_recommendations |->
                        apply_rule(TREATMENT_RULES,
                                   [gender |-> gender,
                                    hemoglobin_state |-> hemoglobin_state,
                                    hematological_state |-> hematological_state,
                                    systemic_toxicity_grade |-> systemic_toxicity_grade])],
                    <<"apply_rule:TREATMENT_RULES">>)

----------------------------------------------------------------------------
(* Inputs *)

Patients == {"p1", "p2"}
Genders == {"Male", "Female", "", None}

\* abstracted values a concept takes (the empty string is a value the store can hold)
ConceptValues(c) ==
    CASE c = "Hemoglobin_Level" -> {"Low", "Normal", ""}
      [] c = "WBC_Level" -> {"Low-Low", "Normal", ""}
      [] c = "Fever_Level" -> {"Normal-Elevated", "High", ""}
      [] c = "Chills" -> {"None", "Shaking"}
      [] c = "Skin-Look" -> {"Erythema", "Vesiculation"}
      [] c = "Allergic-State" -> {"Edema", "Bronchospasm"}

\* validity windows: start_time <= end_time, or a start_time that does not parse
Windows(n) ==
    {w \in ParseableTimestamps \X ParseableTimestamps :
        /\ to_datetime(w[1]).dt <= to_datetime(w[2]).dt
        /\ to_datetime(w[2]).dt <= n}
    \cup {<<"not-a-date", "1">>}

\* what the first column of the first row can hold: the abstracted value alone
\* (a str), or the whole record (a mapping)
Cells(c) ==
    {StrObj(v) : v \in {CHOOSE x \in ConceptValues(c) : x # "", ""}}
    \cup {DictObj(v, w[1], w[2]) : v \in ConceptValues(c), w \in Windows(MaxStoreTime)}

FetchResults(c) == {<<>>} \cup {<< <<o>> >> : o \in Cells(c)}

HematologicalFetches ==
    {("Hemoglobin_Level" :> a) @@ ("WBC_Level" :> b) :
        a \in FetchResults("Hemoglobin_Level"), b \in FetchResults("WBC_Level")}

ToxicityFetches ==
    {("Fever_Level" :> a) @@ ("Chills" :> b) @@ ("Skin-Look" :> c) @@ ("Allergic-State" :> d) :
        a \in FetchResults("Fever_Level"), b \in FetchResults("Chills"),
        c \in FetchResults("Skin-Look"), d \in FetchResults("Allergic-State")}

\* records handed directly to check_temporal_overlap
OverlapRecords ==
    {NoneObj, StrObj("Low")} \cup {DictObj("Low", w[1], w[2]) : w \in Windows(MaxTime)}

RECURSIVE SeqsUpTo(_, _)
SeqsUpTo(S, n) ==
    IF n = 0 THEN {<<>>}
    ELSE LET shorter == SeqsUpTo(S, n - 1)
         IN  shorter \cup {Append(q, x) : q \in {r \in shorter : Len(r) = n - 1}, x \in S}

\* the results the two first-order analyses can hand to analyze_treatment
HematologicalResults ==
    {r.value : r \in {a \in {analyze_patient_hematological_state(p, f) :
                                p \in Patients, f \in HematologicalFetches} :
                         a.outcome = "returned"}}

SystemicToxicityResults ==
    {r.value : r \in {a \in {analyze_patient_systemic_toxicity(p, f) :
                                p \in Patients, f \in ToxicityFetches} :
                         a.outcome = "returned"}}

----------------------------------------------------------------------------
(* The state machine: one call at a time, then the caller takes the result *)

NoCall == [op |-> "none"]
NoResult == [outcome |-> "none"]

Init ==
    /\ pc = "idle"
    /\ call = NoCall
    /\ result = NoResult
    /\ trace = <<>>

Finish(c, r) ==
    /\ pc' = "done"
    /\ call' = c
    /\ result' = [x \in DOMAIN r \ {"trace"} |-> r[x]]
    /\ trace' = r.trace

CallCheckTemporalOverlap ==
    /\ pc = "idle"
    /\ \E records \in SeqsUpTo(OverlapRecords, MaxLen) :
          Finish([op |-> "check_temporal_overlap", records |-> records],
                 Returned(check_temporal_overlap(records), <<>>))

CallAnalyzeHematological ==
    /\ pc = "idle"
    /\ \E p \in Patients, f \in HematologicalFetches :
          Finish([op |-> "analyze_patient_hematological_state",
                  patient_id |-> p, fetched |-> f],
                 analyze_patient_hematological_state(p, f))

CallAnalyzeSystemicToxicity ==
    /\ pc = "idle"
    /\ \E p \in Patients, f \in ToxicityFetches :
          Finish([op |-> "analyze_patient_systemic_toxicity",
                  patient_id |-> p, fetched |-> f],
                 analyze_patient_systemic_toxicity(p, f))

CallAnalyzeTreatment ==
    /\ pc = "idle"
    /\ \E p \in Patients, g \in Genders :
          \E h \in {x \in HematologicalResults : x.patient_id = p},
             t \in {x \in SystemicToxicityResults : x.patient_id = p} :
             Finish([op |-> "analyze_treatment", patient_id |-> p, gender |-> g,
                     hematological_analysis |-> h, systemic_toxicity_analysis |-> t],
                    analyze_treatment(p, g, h, t))

\* the caller has consumed the result (or the exception); the engine keeps no state
Return ==
    /\ pc = "done"
    /\ pc' = "idle"
    /\ call' = NoCall
    /\ result' = NoResult
    /\ trace' = <<>>

Next ==
    \/ CallCheckTemporalOverlap
    \/ CallAnalyzeHematological
    \/ CallAnalyzeSystemicToxicity
    \/ CallAnalyzeTreatment
    \/ Return

Spec == Init /\ [][Next]_vars

----------------------------------------------------------------------------
(* Vocabulary of the properties *)

Range(q) == {q[i] : i \in 1..Len(q)}

Hematological == "analyze_patient_hematological_state"
SystemicToxicity == "analyze_patient_systemic_toxicity"
Treatment == "analyze_treatment"
FirstOrder == {Hematological, SystemicToxicity}
Orchestrators == FirstOrder \cup {Treatment}

Done(ops) == pc = "done" /\ call.op \in ops
ReturnedBy(ops) == Done(ops) /\ result.outcome = "returned"

\* the required concepts of a first-order analysis, in declared order
ConceptsOf(op) ==
    IF op = Hematological THEN <<"Hemoglobin_Level", "WBC_Level">>
    ELSE <<"Fever_Level", "Chills", "Skin-Look", "Allergic-State">>

\* the key of individual_states that carries a concept's value
StateKey(c) ==
    CASE c = "Hemoglobin_Level" -> "hemoglobin_state"
      [] c = "WBC_Level" -> "wbc_level"
      [] c = "Fever_Level" -> "fever_level"
      [] c = "Chills" -> "chills"
      [] c = "Skin-Look" -> "skin_look"
      [] c = "Allergic-State" -> "allergic_state"

DerivedField(op) ==
    CASE op = Hematological -> "hematological_state"
      [] op = SystemicToxicity -> "systemic_toxicity_grade"
      [] op = Treatment -> "treatment_recommendations"

HasError(v) == "error" \in DOMAIN v
HasMarker(v) == "temporal_overlap" \in DOMAIN v

NoRecord(c) == call.fetched[c] = <<>>
AllRecordsFound == \A c \in Range(ConceptsOf(call.op)) : ~NoRecord(c)
FetchedRecords ==
    [i \in 1..Len(ConceptsOf(call.op)) |->
        get_latest_abstracted_value(call.fetched[ConceptsOf(call.op)[i]])]

MissingDataPrefixes ==
    {"Missing required abstracted data for hematological analysis",
     "Missing required abstracted data for: "}
NoOverlapMessages ==
    {<<"No temporal overlap between hemoglobin and WBC measurements">>,
     <<"No temporal overlap between all required measurements">>}

LookupStep(op) ==
    CASE op = Hematological -> "apply_rule:HEMATOLOGICAL_RULES"
      [] op = SystemicToxicity -> "apply_rule:SYSTEMIC_TOXICITY_RULES"
      [] op = Treatment -> "apply_rule:TREATMENT_RULES"

----------------------------------------------------------------------------
(* C1 *)

\* C1: every call of the hematological or the systemic-toxicity analysis
\* returns a structured result and never raises, whatever each fetch finds
\* (no record, or a latest record).
C1_AlwaysReturnsAResult ==
    Done(FirstOrder) => result.outcome = "returned"

----------------------------------------------------------------------------
(* C2 *)

HasNull(records) == \E i \in 1..Len(records) : records[i] = NoneObj

\* C2 as stated: check_temporal_overlap returns false for every sequence that
\* holds a null record, whatever its length (a single null element included).
C2_NullAlwaysFalse ==
    (Done({"check_temporal_overlap"}) /\ HasNull(call.records)) => result.value = FALSE

\* C2 as amended: check_temporal_overlap returns false for every sequence of
\* two or more elements that holds a null record, whatever the other records
\* are; a sequence of exactly one element returns true, also when that
\* element is null.
C2_NullFalseFromTwoRecords ==
    (Done({"check_temporal_overlap"}) /\ HasNull(call.records)) =>
        (result.value = FALSE <=> Len(call.records) >= 2)

C2_Witness ==
    /\ Done({"check_temporal_overlap"})
    /\ Len(call.records) >= 2
    /\ call.records[1] = NoneObj
    /\ call.records[2] = DictObj("Low", "1", "2")
    /\ result.value = FALSE

----------------------------------------------------------------------------
(* C3 *)

StartOf(r) == to_datetime(r.start_time).dt
EndOf(r) == to_datetime(r.end_time).dt

ValidRecords(records) ==
    /\ Len(records) >= 2
    /\ \A i \in 1..Len(records) :
          /\ records[i].type = "dict"
          /\ to_datetime(records[i].start_time).ok
          /\ to_datetime(records[i].end_time).ok
          /\ StartOf(records[i]) <= EndOf(records[i])

\* C3 as stated: for two or more non-null records with parseable timestamps
\* and start <= end, check_temporal_overlap returns true iff the latest start
\* is not after the earliest end (every start is <= every end); so false when
\* some pair is disjoint, true when one interval contains all the others,
\* true when two intervals touch in a single instant.
C3_OverlapIffCommonInstant ==
    (Done({"check_temporal_overlap"}) /\ ValidRecords(call.records)) =>
        LET rs == call.records
            n == Len(rs)
        IN  /\ result.value =
                  (\A i \in 1..n, j \in 1..n : StartOf(rs[i]) <= EndOf(rs[j]))
            /\ (\E i \in 1..n, j \in 1..n : EndOf(rs[i]) < StartOf(rs[j]))
                  => result.value = FALSE
            /\ (\E k \in 1..n : \A i \in 1..n :
                    StartOf(rs[k]) <= StartOf(rs[i]) /\ EndOf(rs[i]) <= EndOf(rs[k]))
                  => result.value = TRUE
            /\ (n = 2 /\ EndOf(rs[1]) = StartOf(rs[2])) => result.value = TRUE

\* C3 as amended: as stated, except that an interval containing all the
\* others makes the result true only when the others share a common instant
\* themselves (as they always do when there are two records).
C3_OverlapIffCommonInstantAmended ==
    (Done({"check_temporal_overlap"}) /\ ValidRecords(call.records)) =>
        LET rs == call.records
            n == Len(rs)
        IN  /\ result.value =
                  (\A i \in 1..n, j \in 1..n : StartOf(rs[i]) <= EndOf(rs[j]))
            /\ (\E i \in 1..n, j \in 1..n : EndOf(rs[i]) < StartOf(rs[j]))
                  => result.value = FALSE
            /\ (\E k \in 1..n :
                    /\ \A i \in 1..n :
                          StartOf(rs[k]) <= StartOf(rs[i]) /\ EndOf(rs[i]) <= EndOf(rs[k])
                    /\ \A i \in 1..n \ {k}, j \in 1..n \ {k} :
                          StartOf(rs[i]) <= EndOf(rs[j]))
                  => result.value = TRUE
            /\ (n = 2 /\ EndOf(rs[1]) = StartOf(rs[2])) => result.value = TRUE

C3_Witness ==
    /\ Done({"check_temporal_overlap"})
    /\ ValidRecords(call.records)
    /\ Len(call.records) = 2
    /\ StartOf(call.records[1]) < EndOf(call.records[1])
    /\ EndOf(call.records[1]) = StartOf(call.records[2])
    /\ StartOf(call.records[2]) < EndOf(call.records[2])
    /\ result.value = TRUE

----------------------------------------------------------------------------
(* C4 *)

\* C4: in both first-order analyses, whenever a required concept has no
\* record, the returned result has a null derived value and an error message
\* that names every missing concept and no present one, in declared order.
C4_MissingConceptsAreNamed ==
    (ReturnedBy(FirstOrder) /\ ~AllRecordsFound) =>
        LET v == result.value
            concepts == ConceptsOf(call.op)
        IN  /\ v[DerivedField(call.op)] = None
            /\ HasError(v)
            /\ SelectSeq(v.error, LAMBDA x : x \in Range(concepts))
                  = SelectSeq(concepts, NoRecord)

----------------------------------------------------------------------------
(* C5 *)

\* C5 as stated: every result of the three analyses carries exactly one of
\* an `error` field, or the derived-value field together with the
\* confirmation marker: never both, and never neither.
C5_ErrorXorMarker ==
    ReturnedBy(Orchestrators) =>
        LET v == result.value
        IN  \/ HasError(v) /\ ~HasMarker(v)
            \/ ~HasError(v) /\ HasMarker(v) /\ DerivedField(call.op) \in DOMAIN v

\* C5 as amended: every result of the hematological and of the systemic
\* toxicity analysis carries exactly one of an `error` field, or the
\* confirmation marker (temporal_overlap = True), and always the
\* derived-value field; a result of analyze_treatment never carries the
\* marker: it carries the derived-value field and exactly one of `error` and
\* `clinical_inputs`.
C5_ErrorXorMarkerFirstOrder ==
    /\ ReturnedBy(FirstOrder) =>
          LET v == result.value
          IN  /\ DerivedField(call.op) \in DOMAIN v
              /\ HasError(v) <=> ~HasMarker(v)
              /\ HasMarker(v) => v.temporal_overlap = TRUE
    /\ ReturnedBy({Treatment}) =>
          LET v == result.value
          IN  /\ DerivedField(call.op) \in DOMAIN v
              /\ ~HasMarker(v)
              /\ HasError(v) <=> "clinical_inputs" \notin DOMAIN v

C5_Witness ==
    /\ ReturnedBy({Hematological})
    /\ ~HasError(result.value)
    /\ HasMarker(result.value)
    /\ result.value.hematological_state = None

----------------------------------------------------------------------------
(* C6 *)

\* what individual_states holds for a concept: the record's value, null when
\* the fetch found none that counts
ExpectedState(fetch_result) ==
    IF fetch_result = <<>> THEN None
    ELSE IF fetch_result[1][1].type = "dict" THEN fetch_result[1][1].value
    ELSE None

FirstOrderInputsReported ==
    LET v == result.value
        concepts == ConceptsOf(call.op)
    IN  /\ "patient_id" \in DOMAIN v
        /\ v.patient_id = call.patient_id
        /\ "individual_states" \in DOMAIN v
        /\ DOMAIN v.individual_states = {StateKey(c) : c \in Range(concepts)}
        /\ \A c \in Range(concepts) :
              v.individual_states[StateKey(c)] = ExpectedState(call.fetched[c])

TreatmentInputsUsed ==
    [gender |-> call.gender,
     hemoglobin_state |-> call.hematological_analysis.individual_states.hemoglobin_state,
     hematological_state |-> call.hematological_analysis.hematological_state,
     systemic_toxicity_grade |-> call.systemic_toxicity_analysis.systemic_toxicity_grade]

\* C6 as stated: every result of the three analyses, on success and on every
\* failure path, holds patient_id and the raw-inputs field (individual_states,
\* clinical_inputs for the treatment) with the inputs used, null for each
\* missing one.
C6_InputsAlwaysReported ==
    /\ ReturnedBy(FirstOrder) => FirstOrderInputsReported
    /\ ReturnedBy({Treatment}) =>
          /\ result.value.patient_id = call.patient_id
          /\ "clinical_inputs" \in DOMAIN result.value

\* C6 as amended: every result of the hematological and of the systemic
\* toxicity analysis, on success and on every failure path, holds patient_id
\* and individual_states with the inputs used, null for each missing one;
\* every result of analyze_treatment holds patient_id, and holds
\* clinical_inputs (the four inputs used) exactly when it carries no `error`.
C6_InputsReportedExceptTreatmentFailure ==
    /\ ReturnedBy(FirstOrder) => FirstOrderInputsReported
    /\ ReturnedBy({Treatment}) =>
          /\ result.value.patient_id = call.patient_id
          /\ "clinical_inputs" \in DOMAIN result.value <=> ~HasError(result.value)
          /\ ~HasError(result.value) => result.value.clinical_inputs = TreatmentInputsUsed

C6_Witness ==
    /\ ReturnedBy({Hematological})
    /\ HasError(result.value)
    /\ NoRecord("WBC_Level")
    /\ result.value.individual_states.hemoglobin_state = "Low"
    /\ result.value.individual_states.wbc_level = None

----------------------------------------------------------------------------
(* C7 *)

\* C7: analyze_treatment propagates an upstream failure first: when the
\* hematological result carries an `error`, the treatment result has null
\* recommendations and an `error` made of "Hematological analysis failed"
\* followed by the nested text, also when the systemic toxicity result
\* carries one too; otherwise, when the systemic toxicity result carries an
\* `error`, the `error` names that analysis and repeats its text; in all
\* these cases no treatment table lookup is performed.
C7_UpstreamErrorPropagatedFirst ==
    Done({Treatment}) =>
        LET h == call.hematological_analysis
            t == call.systemic_toxicity_analysis
            v == result.value
        IN  /\ HasError(h) =>
                  /\ result.outcome = "returned"
                  /\ v.treatment_recommendations = None
                  /\ HasError(v)
                  /\ Head(v.error) = "Hematological analysis failed: "
                  /\ Tail(v.error) = h.error
                  /\ LookupStep(Treatment) \notin Range(trace)
            /\ (~HasError(h) /\ HasError(t)) =>
                  /\ result.outcome = "returned"
                  /\ v.treatment_recommendations = None
                  /\ HasError(v)
                  /\ Head(v.error) = "Systemic toxicity analysis failed: "
                  /\ Tail(v.error) = t.error
                  /\ LookupStep(Treatment) \notin Range(trace)

C7_Witness ==
    /\ Done({Treatment})
    /\ HasError(call.hematological_analysis)
    /\ HasError(call.systemic_toxicity_analysis)
    /\ call.hematological_analysis.error \in NoOverlapMessages
    /\ Head(result.value.error) = "Hematological analysis failed: "

----------------------------------------------------------------------------
(* C8 *)

----------------------------------------------------------------------------
(* C9 *)

\* C9: the first-order analyses run fetch, completeness check, temporal
\* validity check, lookup in this order: the lookup is invoked only when
\* every required record is present and check_temporal_overlap returned
\* true; when all records are present and the overlap check returns false,
\* the result has a null derived value and the no-temporal-overlap error,
\* which is not the missing-data error; when a record is missing, the
\* missing-data error is returned and the overlap check has no say.
C9_StepsInOrder ==
    Done(FirstOrder) =>
        LET v == result.value
        IN  /\ LookupStep(call.op) \in Range(trace) =>
                  /\ AllRecordsFound
                  /\ "check_temporal_overlap" \in Range(trace)
                  /\ check_temporal_overlap(FetchedRecords)
            /\ (AllRecordsFound /\ ~check_temporal_overlap(FetchedRecords)) =>
                  /\ result.outcome = "returned"
                  /\ v[DerivedField(call.op)] = None
                  /\ HasError(v)
                  /\ v.error \in NoOverlapMessages
                  /\ Head(v.error) \notin MissingDataPrefixes
            /\ ~AllRecordsFound =>
                  /\ result.outcome = "returned"
                  /\ v[DerivedField(call.op)] = None
                  /\ HasError(v)
                  /\ Head(v.error) \in MissingDataPrefixes
                  /\ "check_temporal_overlap" \notin Range(trace)

----------------------------------------------------------------------------
(* C10 *)

ParameterNames ==
    <<"gender", "hemoglobin_state", "hematological_state", "systemic_toxicity_grade">>

\* a parameter is present when it is neither null nor empty
Present(x) == x # None /\ x # ""

\* C10: when neither upstream result carries an `error`, analyze_treatment
\* uses gender from the caller, hemoglobin_state from the hematological
\* result's individual_states, hematological_state and
\* systemic_toxicity_grade from the derived values; it looks TREATMENT_RULES
\* up iff all four are present (neither null nor empty), and otherwise
\* returns null recommendations and an `error` listing exactly the missing
\* names in the order gender, hemoglobin_state, hematological_state,
\* systemic_toxicity_grade; so an upstream analysis that ended with no
\* matching row makes the treatment analysis return an error.
C10_TreatmentNeedsAllFour ==
    (Done({Treatment}) /\ ~HasError(call.hematological_analysis)
                       /\ ~HasError(call.systemic_toxicity_analysis)) =>
        LET v == result.value
            used == TreatmentInputsUsed
            all_four == \A n \in Range(ParameterNames) : Present(used[n])
        IN  /\ result.outcome = "returned"
            /\ LookupStep(Treatment) \in Range(trace) <=> all_four
            /\ all_four =>
                  /\ ~HasError(v)
                  /\ v.clinical_inputs = used
            /\ ~all_four =>
                  /\ v.treatment_recommendations = None
                  /\ HasError(v)
                  /\ Head(v.error) = "Missing required parameters for treatment analysis: "
                  /\ SelectSeq(v.error, LAMBDA x : x \in Range(ParameterNames))
                        = SelectSeq(ParameterNames, LAMBDA n : ~Present(used[n]))

C10_Witness ==
    /\ Done({Treatment})
    /\ ~HasError(call.hematological_analysis)
    /\ ~HasError(call.systemic_toxicity_analysis)
    /\ call.gender = "Female"
    /\ call.hematological_analysis.individual_states.hemoglobin_state = "Normal"
    /\ call.hematological_analysis.hematological_state = None
    /\ call.systemic_toxicity_analysis.systemic_toxicity_grade = "GRADE II"
    /\ result.value.error = <<"Missing required parameters for treatment analysis: ",
                              "hematological_state">>

====
